---- MODULE Spec2Model ----
(***************************************************************************)
(* The items service of src/main.py: the validated Item model, the         *)
(* in-memory store items_db, the dependency chain verify_api_key ->        *)
(* verify_admin_access, the timing middleware and the route handlers.      *)
(*                                                                         *)
(* Text is a sequence of one-character strings.  An optional value         *)
(* (Python's `x | None`) is a sequence of length at most one: <<>> is      *)
(* None and <<v>> is the value v.  Prices and taxes are whole numbers.     *)
(***************************************************************************)
EXTENDS Integers, Sequences, FiniteSets, TLC

VARIABLES items_db, conn, createLog

vars == <<items_db, conn, createLog>>

(***************************************************************************)
(* Bounds of the model.                                                    *)
(***************************************************************************)
\* the store is filled up to this many records by sequential creates
MaxItems == 3
\* names are tried up to this many characters beyond the longest allowed
MaxNameOver == 1
\* tag lists are tried up to this many entries beyond the longest allowed
MaxTagsOver == 1

(***************************************************************************)
(* Constants of the Item model (class Item).                               *)
(***************************************************************************)
NameMinLength == 3
NameMaxLength == 50
DescriptionMaxLength == 300
PriceLe == 100000
TagsMaxLength == 5
\* number of repetitions of \d in the code pattern
CodeDigits == 3

(***************************************************************************)
(* Text: str.lower(), str.title(), the `in` test and the code pattern.     *)
(***************************************************************************)
UpperLetters == <<"A", "B", "C", "D", "E", "G", "I", "K", "M", "N", "O", "X">>
LowerLetters == <<"a", "b", "c", "d", "e", "g", "i", "k", "m", "n", "o", "x">>
DigitChars == {"0", "1", "2", "3", "4", "5", "6", "7", "8", "9"}

IsUpper(c) == \E i \in 1..Len(UpperLetters) : UpperLetters[i] = c
IsLower(c) == \E i \in 1..Len(LowerLetters) : LowerLetters[i] = c
IsCased(c) == IsUpper(c) \/ IsLower(c)

LowerChar(c) ==
    IF IsUpper(c)
    THEN LowerLetters[CHOOSE i \in 1..Len(UpperLetters) : UpperLetters[i] = c]
    ELSE c

UpperChar(c) ==
    IF IsLower(c)
    THEN UpperLetters[CHOOSE i \in 1..Len(LowerLetters) : LowerLetters[i] = c]
    ELSE c

\* str.lower()
Lower(v) == [i \in 1..Len(v) |-> LowerChar(v[i])]

\* str.title(): a cased character is upper-cased when it starts a word (the
\* character before it is not cased) and lower-cased otherwise
Title(v) ==
    [i \in 1..Len(v) |->
        IF i = 1 \/ ~IsCased(v[i - 1]) THEN UpperChar(v[i]) ELSE LowerChar(v[i])]

\* Python's `sub in text`
Contains(text, sub) ==
    \E i \in 1..(Len(text) - Len(sub) + 1) :
        SubSeq(text, i, i + Len(sub) - 1) = sub

AdminText == <<"a", "d", "m", "i", "n">>
CodePrefix == <<"c", "o", "d", "e", "-">>

\* the pattern ^code-\d{3}$
MatchesCodePattern(c) ==
    /\ Len(c) = Len(CodePrefix) + CodeDigits
    /\ SubSeq(c, 1, Len(CodePrefix)) = CodePrefix
    /\ \A i \in (Len(CodePrefix) + 1)..Len(c) : c[i] \in DigitChars

(***************************************************************************)
(* Item: the field constraints and the custom validator.  A validation     *)
(* error is [loc, type]; the validator on `name` is an `after` validator,  *)
(* it runs on the value only when the field's own constraints passed.      *)
(***************************************************************************)
Err(loc, type) == [loc |-> loc, type |-> type]

\* @field_validator("name"): the error it raises, or the normalized name
name_must_not_contain_admin_wrong_case(v) ==
    IF Contains(v, AdminText)
    THEN [ok |-> FALSE, value |-> v]
    ELSE [ok |-> TRUE, value |-> Title(v)]

name_must_not_contain_admin(v) ==
    IF Contains(Lower(v), AdminText)
    THEN [ok |-> FALSE, value |-> v]
    ELSE [ok |-> TRUE, value |-> Title(v)]

NameErrors(name) ==
    IF Len(name) < NameMinLength THEN {Err("name", "string_too_short")}
    ELSE IF Len(name) > NameMaxLength THEN {Err("name", "string_too_long")}
    ELSE IF ~name_must_not_contain_admin(name).ok THEN {Err("name", "value_error")}
    ELSE {}

DescriptionErrors(d) ==
    IF d # <<>> /\ Len(d[1]) > DescriptionMaxLength
    THEN {Err("description", "string_too_long")} ELSE {}

PriceErrors_ge(p) ==
    IF ~(p >= 0) THEN {Err("price", "greater_than")}
    ELSE IF ~(p <= PriceLe) THEN {Err("price", "less_than_equal")}
    ELSE {}

PriceErrors(p) ==
    IF ~(p > 0) THEN {Err("price", "greater_than")}
    ELSE IF ~(p <= PriceLe) THEN {Err("price", "less_than_equal")}
    ELSE {}

TaxErrors(t) ==
    IF t # <<>> /\ ~(t[1] > 0) THEN {Err("tax", "greater_than")} ELSE {}

CodeErrors(c) ==
    IF c # <<>> /\ ~MatchesCodePattern(c[1])
    THEN {Err("code", "string_pattern_mismatch")} ELSE {}

TagsErrors(t) ==
    IF Len(t) > TagsMaxLength THEN {Err("tags", "too_long")} ELSE {}

ItemErrors(raw) ==
    NameErrors(raw.name) \cup DescriptionErrors(raw.description)
        \cup PriceErrors(raw.price) \cup TaxErrors(raw.tax)
        \cup CodeErrors(raw.code) \cup TagsErrors(raw.tags)

\* Item(**raw): every field is validated, the errors are collected, and the
\* model is built only when there are none; model_dump() of the result
Item(raw) ==
    LET errs == ItemErrors(raw) IN
    IF errs # {}
    THEN [ok |-> FALSE, errors |-> errs, item |-> <<>>]
    ELSE [ok |-> TRUE, errors |-> {},
          item |-> << [name |-> name_must_not_contain_admin(raw.name).value,
                       description |-> raw.description,
                       price |-> raw.price,
                       tax |-> raw.tax,
                       code |-> raw.code,
                       tags |-> raw.tags] >>]

(***************************************************************************)
(* Requests and responses.  A connection slot holds one request on its way *)
(* through the middleware, the dependencies and the handler:               *)
(*   idle -> body | dep_api_key | dep_admin | handler -> responded -> sent *)
(* calls lists the dependency units and handlers invoked for the request,  *)
(* snap is the store as it was when the request was received.  createLog   *)
(* records the successful creates in order: the id assigned, the item      *)
(* stored and the body it was built from.                                  *)
(***************************************************************************)
Slots == {1, 2}

RouteCreate == "POST /items"
RouteGet == "GET /items/{item_id}"
RouteUpdate == "PUT /items/{item_id}"
RouteDelete == "DELETE /items/{item_id}"
RouteSecure == "GET /secure-data/"
RouteAdmin == "GET /admin/"

ProcessTimeHeader == "X-Process-Time"

EmptyDb == [k \in {} |-> k]

NoRequest == [route |-> "", item_id |-> 0, body |-> <<>>, api_key |-> <<>>, q |-> <<>>]

IdleConn ==
    [pc |-> "idle", request |-> NoRequest, item |-> <<>>, status |-> 0,
     body |-> <<>>, headers |-> {}, calls |-> <<>>, snap |-> EmptyDb]

\* decimal text of an integer, as an f-string formats it
RECURSIVE NatText(_)
NatText(n) ==
    IF n < 10 THEN << <<"0", "1", "2", "3", "4", "5", "6", "7", "8", "9">>[n + 1] >>
    ELSE NatText(n \div 10) \o NatText(n % 10)

IntText(n) == IF n < 0 THEN <<"-">> \o NatText(0 - n) ELSE NatText(n)

\* Python truthiness of an optional text: None and "" are falsy
Truthy(q) == q # <<>> /\ Len(q[1]) > 0

\* the first stage of the pipeline behind call_next for a route
FirstStage(route) ==
    IF route \in {RouteCreate, RouteUpdate} THEN "body"
    ELSE IF route \in {RouteSecure, RouteAdmin} THEN "dep_api_key"
    ELSE "handler"

\* the pipeline has produced a response for slot s: it goes back to the
\* middleware; an HTTPException or a validation error is turned into its
\* response inside call_next, so it comes back the same way
Respond(c, unit, status, body) ==
    [c EXCEPT !.pc = "responded", !.status = status, !.body = body,
              !.calls = IF unit = "" THEN @ ELSE Append(@, unit)]

(***************************************************************************)
(* Middleware add_process_time_header.  The header is recorded by its name: *)
(* its value, the elapsed wall-clock time, depends on nothing in the state. *)
(***************************************************************************)
\* lines 83-86: the request enters the middleware, which calls call_next
Receive(s, r) ==
    /\ conn[s].pc \in {"idle", "sent"}
    /\ conn' = [conn EXCEPT ![s] =
                   [IdleConn EXCEPT !.pc = FirstStage(r.route), !.request = r,
                                    !.snap = items_db]]
    /\ UNCHANGED <<items_db, createLog>>

\* lines 88-94: call_next has returned the response; the header is added
AttachProcessTime_skip_errors(s) ==
    /\ conn[s].pc = "responded"
    /\ conn' = [conn EXCEPT ![s].pc = "sent",
                            ![s].headers = IF conn[s].status >= 400 THEN @
                                           ELSE @ \cup {ProcessTimeHeader}]
    /\ UNCHANGED <<items_db, createLog>>

AttachProcessTime(s) ==
    /\ conn[s].pc = "responded"
    /\ conn' = [conn EXCEPT ![s].pc = "sent",
                            ![s].headers = @ \cup {ProcessTimeHeader}]
    /\ UNCHANGED <<items_db, createLog>>

(***************************************************************************)
(* Request body: `item: Item` of create_item and update_item.              *)
(***************************************************************************)
ValidateBody_ignores_errors(s) ==
    /\ conn[s].pc = "body"
    /\ conn' = [conn EXCEPT ![s].pc = "handler", ![s].item = conn[s].request.body]
    /\ UNCHANGED <<items_db, createLog>>

ValidateBody(s) ==
    /\ conn[s].pc = "body"
    /\ LET v == Item(conn[s].request.body[1]) IN
       conn' = [conn EXCEPT ![s] =
                   IF v.ok
                   THEN [@ EXCEPT !.pc = "handler", !.item = v.item]
                   ELSE Respond(@, "", 422, [detail |-> v.errors])]
    /\ UNCHANGED <<items_db, createLog>>

(***************************************************************************)
(* Dependencies.                                                           *)
(***************************************************************************)
ApiKeyAbc == <<"a", "b", "c">>

verify_api_key_any_case(s) ==
    /\ conn[s].pc = "dep_api_key"
    /\ conn' = [conn EXCEPT ![s] =
                   IF conn[s].request.api_key = <<>>
                         \/ Lower(conn[s].request.api_key[1]) # ApiKeyAbc
                   THEN Respond(@, "verify_api_key", 403, [detail |-> "Invalid API Key"])
                   ELSE [@ EXCEPT !.calls = Append(@, "verify_api_key"),
                                  !.pc = IF conn[s].request.route = RouteAdmin
                                         THEN "dep_admin" ELSE "handler"]]
    /\ UNCHANGED <<items_db, createLog>>

verify_api_key(s) ==
    /\ conn[s].pc = "dep_api_key"
    /\ conn' = [conn EXCEPT ![s] =
                   IF conn[s].request.api_key # <<ApiKeyAbc>>
                   THEN Respond(@, "verify_api_key", 403, [detail |-> "Invalid API Key"])
                   ELSE [@ EXCEPT !.calls = Append(@, "verify_api_key"),
                                  !.pc = IF conn[s].request.route = RouteAdmin
                                         THEN "dep_admin" ELSE "handler"]]
    /\ UNCHANGED <<items_db, createLog>>

verify_admin_access(s) ==
    /\ conn[s].pc = "dep_admin"
    /\ conn' = [conn EXCEPT ![s].calls = Append(@, "verify_admin_access"),
                            ![s].pc = "handler"]
    /\ UNCHANGED <<items_db, createLog>>

(***************************************************************************)
(* Route handlers.                                                         *)
(***************************************************************************)
AtHandler(s, route) == conn[s].pc = "handler" /\ conn[s].request.route = route

get_secure_data(s) ==
    /\ AtHandler(s, RouteSecure)
    /\ conn' = [conn EXCEPT ![s] =
                   Respond(@, "get_secure_data", 200,
                           [message |-> "This is secure data",
                            access_api_key |-> conn[s].request.api_key[1]])]
    /\ UNCHANGED <<items_db, createLog>>

get_admin_data(s) ==
    /\ AtHandler(s, RouteAdmin)
    /\ conn' = [conn EXCEPT ![s] =
                   Respond(@, "get_admin_data", 200,
                           [message |-> "Hello admin",
                            admin_access |-> [is_admin |-> TRUE]])]
    /\ UNCHANGED <<items_db, createLog>>

GetItemResult_no_check(db, item_id) ==
    [status |-> 200,
     body |-> IF item_id \in DOMAIN db THEN [item_id |-> item_id] @@ db[item_id]
              ELSE [item_id |-> item_id]]

\* get_item as a function of the store
GetItemResult(db, item_id) ==
    IF item_id \notin DOMAIN db
    THEN [status |-> 404, body |-> [detail |-> "Item not found"]]
    ELSE [status |-> 200, body |-> [item_id |-> item_id] @@ db[item_id]]

get_item(s) ==
    /\ AtHandler(s, RouteGet)
    /\ LET r == GetItemResult(items_db, conn[s].request.item_id) IN
       conn' = [conn EXCEPT ![s] = Respond(@, "get_item", r.status, r.body)]
    /\ UNCHANGED <<items_db, createLog>>

CreateItemResult_from_zero(db, item) ==
    LET item_id == Cardinality(DOMAIN db) IN
    [item_id |-> item_id,
     db |-> [k \in DOMAIN db \cup {item_id} |-> IF k = item_id THEN item ELSE db[k]]]

\* create_item as a function of the store: lines 227-228
CreateItemResult(db, item) ==
    LET item_id == Cardinality(DOMAIN db) + 1 IN
    [item_id |-> item_id,
     db |-> [k \in DOMAIN db \cup {item_id} |-> IF k = item_id THEN item ELSE db[k]]]

\* the count read before a suspension point and the insert made after it
create_item_stale_count(s) ==
    /\ AtHandler(s, RouteCreate)
    /\ LET item_id == Cardinality(DOMAIN conn[s].snap) + 1
           db == [k \in DOMAIN items_db \cup {item_id} |->
                     IF k = item_id THEN conn[s].item[1] ELSE items_db[k]]
       IN
       /\ items_db' = db
       /\ conn' = [conn EXCEPT ![s] =
                      Respond(@, "create_item", 201, [item_id |-> item_id] @@ db[item_id])]
       /\ createLog' = Append(createLog,
                              [item_id |-> item_id, item |-> conn[s].item[1],
                               raw |-> conn[s].request.body[1]])

\* no await between line 227 and line 231: the handler runs as one step
create_item(s) ==
    /\ AtHandler(s, RouteCreate)
    /\ LET r == CreateItemResult(items_db, conn[s].item[1]) IN
       /\ items_db' = r.db
       /\ conn' = [conn EXCEPT ![s] =
                      Respond(@, "create_item", 201,
                              [item_id |-> r.item_id] @@ r.db[r.item_id])]
       /\ createLog' = Append(createLog,
                              [item_id |-> r.item_id, item |-> conn[s].item[1],
                               raw |-> conn[s].request.body[1]])

update_item(s) ==
    /\ AtHandler(s, RouteUpdate)
    /\ LET result == [item_id |-> conn[s].request.item_id] @@ conn[s].item[1] IN
       conn' = [conn EXCEPT ![s] =
                   Respond(@, "update_item", 200,
                           IF Truthy(conn[s].request.q)
                           THEN [query_param |-> conn[s].request.q[1]] @@ result
                           ELSE result)]
    /\ UNCHANGED <<items_db, createLog>>

DeleteMessage(item_id) == <<"Item ", IntText(item_id), " deleted successfully">>

delete_item_removes(s) ==
    /\ AtHandler(s, RouteDelete)
    /\ items_db' = [k \in DOMAIN items_db \ {conn[s].request.item_id} |-> items_db[k]]
    /\ conn' = [conn EXCEPT ![s] =
                   Respond(@, "delete_item", 200,
                           [message |-> DeleteMessage(conn[s].request.item_id)])]
    /\ UNCHANGED createLog

delete_item(s) ==
    /\ AtHandler(s, RouteDelete)
    /\ conn' = [conn EXCEPT ![s] =
                   Respond(@, "delete_item", 200,
                           [message |-> DeleteMessage(conn[s].request.item_id)])]
    /\ UNCHANGED <<items_db, createLog>>

(***************************************************************************)
(* The requests the environment sends.                                     *)
(***************************************************************************)
Xs(n) == [i \in 1..n |-> "x"]

\* base followed by as many "x" as it takes to reach n characters
PadTo(base, n) == base \o Xs(n - Len(base))

RawItem(name, description, price, tax, code, tags) ==
    [name |-> name, description |-> description, price |-> price,
     tax |-> tax, code |-> code, tags |-> tags]

NameInputs ==
    {<<"a", "b">>, <<"a", "b", "c">>, <<"g", "A", "M", "E", " ", "o", "K">>,
     <<"a", "d", " ", "m", "i", "n">>, <<"a", "d", "m", "i", "n">>,
     <<"A", "D", "M", "I", "N">>, <<"x", "A", "d", "M", "i", "N", " ", "x">>}
    \cup {PadTo(b, n) : b \in {<<"a", "b", "c">>, <<"A", "d", "m", "I", "n">>},
                        n \in NameMaxLength..(NameMaxLength + MaxNameOver)}

DescriptionInputs ==
    {<<>>, <<Xs(0)>>, <<Xs(DescriptionMaxLength)>>, <<Xs(DescriptionMaxLength + 1)>>}

PriceInputs == {-1, 0, 1, PriceLe, PriceLe + 1}

TaxInputs == {<<>>, <<-1>>, <<0>>, <<1>>}

CodeInputs ==
    {<<>>,
     <<CodePrefix \o <<"1", "2", "3">> >>,
     <<CodePrefix \o <<"1", "2">> >>,
     <<CodePrefix \o <<"1", "2", "3", "4">> >>,
     <<CodePrefix \o <<"1", "2", "x">> >>,
     << <<"x">> \o CodePrefix \o <<"1", "2", "3">> >>,
     << <<"C", "o", "d", "e", "-", "1", "2", "3">> >>}

TagsInputs ==
    {[i \in 1..n |-> <<"x">>] : n \in {0} \cup (TagsMaxLength..(TagsMaxLength + MaxTagsOver))}

\* the bodies tried against the Item model alone
ItemInputs ==
    {RawItem(n, d, p, t, c, g) :
        n \in NameInputs, d \in DescriptionInputs, p \in PriceInputs,
        t \in TaxInputs, c \in CodeInputs, g \in TagsInputs}

\* the bodies sent to the running service: two valid, two invalid
AppBodies ==
    {RawItem(<<"a", "b", "c">>, <<>>, 1, <<>>, <<>>, <<>>),
     RawItem(<<"g", "A", "M", "E", " ", "o", "K">>, <<Xs(2)>>, PriceLe, <<1>>,
             <<CodePrefix \o <<"1", "2", "3">> >>, << <<"x">> >>),
     RawItem(<<"a", "b">>, <<>>, 1, <<>>, <<>>, <<>>),
     RawItem(<<"x", "A", "d", "M", "i", "N", " ", "x">>, <<>>, 0, <<>>, <<>>, <<>>)}

ItemIds == (-1)..(MaxItems + 1)

QueryInputs == {<<>>, << <<>> >>, << <<"n">> >>}

ApiKeyInputs == {<<>>, <<ApiKeyAbc>>, << <<"a", "b", "d">> >>, << <<"A", "B", "C">> >>}

Request(route, item_id, body, api_key, q) ==
    [route |-> route, item_id |-> item_id, body |-> body, api_key |-> api_key, q |-> q]

CreateRequests == {Request(RouteCreate, 0, <<b>>, <<>>, <<>>) : b \in AppBodies}

ItemRequests == {Request(RouteCreate, 0, <<b>>, <<>>, <<>>) : b \in ItemInputs}

Requests ==
    CreateRequests
    \cup {Request(RouteGet, i, <<>>, <<>>, <<>>) : i \in ItemIds}
    \cup {Request(RouteUpdate, i, <<b>>, <<>>, q) :
              i \in ItemIds, b \in AppBodies, q \in QueryInputs}
    \cup {Request(RouteDelete, i, <<>>, <<>>, <<>>) : i \in ItemIds}
    \cup {Request(r, 0, <<>>, k, <<>>) : r \in {RouteSecure, RouteAdmin}, k \in ApiKeyInputs}

\* creates are sent while the store holds fewer than MaxItems records
Admit(r) == r.route = RouteCreate => Cardinality(DOMAIN items_db) < MaxItems

(***************************************************************************)
(* Specifications.                                                         *)
(***************************************************************************)
\* line 98 and an application that has received nothing
Init ==
    /\ items_db = EmptyDb
    /\ conn = [s \in Slots |-> IdleConn]
    /\ createLog = <<>>

\* one request at a time, on slot 1
Next ==
    \/ \E r \in Requests : Admit(r) /\ Receive(1, r)
    \/ ValidateBody(1)
    \/ verify_api_key(1)
    \/ verify_admin_access(1)
    \/ get_secure_data(1)
    \/ get_admin_data(1)
    \/ get_item(1)
    \/ create_item(1)
    \/ update_item(1)
    \/ delete_item(1)
    \/ AttachProcessTime(1)

Spec == Init /\ [][Next]_vars

\* creates in flight on every slot at once
NextConc ==
    \E s \in Slots :
        \/ \E r \in CreateRequests : Admit(r) /\ Receive(s, r)
        \/ ValidateBody(s)
        \/ create_item(s)
        \/ AttachProcessTime(s)

SpecConc == Init /\ [][NextConc]_vars

\* the Item model alone: one create with a body from ItemInputs
NextItem ==
    \/ conn[1].pc = "idle" /\ \E r \in ItemRequests : Receive(1, r)
    \/ ValidateBody(1)
    \/ create_item(1)
    \/ AttachProcessTime(1)

SpecItem == Init /\ [][NextItem]_vars

(***************************************************************************)
(* Properties.  The constraints of the Item fields are restated here from  *)
(* their description, one per constraint, independently of the order in    *)
(* which the model evaluates them.                                         *)
(***************************************************************************)
Finished(s) == conn[s].pc \in {"responded", "sent"}

\* the body has been through validation
Validated(s) ==
    /\ conn[s].request.route = RouteCreate
    /\ conn[s].pc \in {"handler", "responded", "sent"}

Constructed(s) == ~(Finished(s) /\ conn[s].status = 422)

HasAdmin(name) ==
    \E i \in 1..Len(name) :
        /\ i + Len(AdminText) - 1 <= Len(name)
        /\ Lower(SubSeq(name, i, i + Len(AdminText) - 1)) = AdminText

NameLengthOk(name) == Len(name) >= NameMinLength /\ Len(name) <= NameMaxLength

ViolatedConstraints(raw) ==
    {e \in {Err("name", "string_too_short")} : Len(raw.name) < NameMinLength}
    \cup {e \in {Err("name", "string_too_long")} : Len(raw.name) > NameMaxLength}
    \cup {e \in {Err("name", "value_error")} : HasAdmin(raw.name)}
    \cup {e \in {Err("description", "string_too_long")} :
              raw.description # <<>> /\ Len(raw.description[1]) > DescriptionMaxLength}
    \cup {e \in {Err("price", "greater_than")} : raw.price <= 0}
    \cup {e \in {Err("price", "less_than_equal")} : raw.price > PriceLe}
    \cup {e \in {Err("tax", "greater_than")} : raw.tax # <<>> /\ raw.tax[1] <= 0}
    \cup {e \in {Err("code", "string_pattern_mismatch")} :
              raw.code # <<>> /\ ~MatchesCodePattern(raw.code[1])}
    \cup {e \in {Err("tags", "too_long")} : Len(raw.tags) > TagsMaxLength}

\* the id the next create would be assigned in store db
NextId(db) == Cardinality(DOMAIN db) + 1

\* C1: sequential creates are assigned the ids 1, 2, ..., N in that order, and
\* GET /items/{k} returns the validated item of the k-th create (the body
\* supplied, its name title-cased) with item_id = k.
C1_SequentialIds ==
    /\ \A k \in 1..Len(createLog) :
        /\ createLog[k].item_id = k
        /\ createLog[k].item = [createLog[k].raw EXCEPT !.name = Title(@)]
        /\ GetItemResult(items_db, k) =
              [status |-> 200, body |-> [item_id |-> k] @@ createLog[k].item]
    /\ \A s \in Slots :
        (conn[s].request.route = RouteGet /\ Finished(s)
             /\ conn[s].request.item_id \in 1..Len(createLog))
        => /\ conn[s].status = 200
           /\ conn[s].body = [item_id |-> conn[s].request.item_id]
                                 @@ createLog[conn[s].request.item_id].item

C1_Witness ==
    /\ Len(createLog) = MaxItems
    /\ createLog[1].item # createLog[2].item
    /\ conn[1].request.route = RouteGet
    /\ conn[1].request.item_id = 2
    /\ conn[1].pc = "sent"

\* C2: after a successful PUT /items/{id} on a stored id, GET /items/{id}
\* returns the fields of the item given to the update.
C2_UpdateReplacesRecord ==
    \A s \in Slots :
        (conn[s].request.route = RouteUpdate /\ Finished(s) /\ conn[s].status = 200
             /\ conn[s].request.item_id \in DOMAIN items_db)
        => GetItemResult(items_db, conn[s].request.item_id).body
              = [item_id |-> conn[s].request.item_id] @@ conn[s].item[1]

\* C3: /secure-data/ and /admin/ succeed with api_key "abc"; with any other
\* key or none they end in 403 "Invalid API Key" and neither
\* verify_admin_access nor the handler is invoked; verify_api_key always runs
\* first and no unit runs twice.
C3_ApiKeyGate ==
    \A s \in Slots :
        conn[s].request.route \in {RouteSecure, RouteAdmin} =>
            LET c == conn[s]
                chain == IF c.request.route = RouteAdmin
                         THEN <<"verify_api_key", "verify_admin_access", "get_admin_data">>
                         ELSE <<"verify_api_key", "get_secure_data">>
            IN
            /\ Len(c.calls) <= Len(chain)
            /\ c.calls = SubSeq(chain, 1, Len(c.calls))
            /\ (c.request.api_key # <<ApiKeyAbc>>) =>
                  /\ Len(c.calls) <= 1
                  /\ c.pc \in {"dep_api_key", "responded", "sent"}
                  /\ Finished(s) =>
                        /\ c.status = 403
                        /\ c.body = [detail |-> "Invalid API Key"]
            /\ (c.request.api_key = <<ApiKeyAbc>> /\ Finished(s)) =>
                  /\ c.status = 200
                  /\ c.calls = chain

C3_Witness ==
    /\ conn[1].request.route = RouteAdmin
    /\ conn[1].request.api_key = << <<"A", "B", "C">> >>
    /\ conn[1].pc = "sent"
    /\ conn[1].status = 403

\* C4: GET /items/{id} for an id no create has assigned ends in 404 "Item not
\* found" and leaves the store as it was.
C4_GetUnknownIsNotFound ==
    \A s \in Slots :
        (conn[s].request.route = RouteGet /\ Finished(s)
             /\ ~(\E k \in 1..Len(createLog) :
                      createLog[k].item_id = conn[s].request.item_id))
        => /\ conn[s].status = 404
           /\ conn[s].body = [detail |-> "Item not found"]
           /\ items_db = conn[s].snap

C4_Witness ==
    /\ Len(createLog) = 2
    /\ conn[1].request.route = RouteGet
    /\ conn[1].request.item_id = 3
    /\ conn[1].pc = "sent"
    /\ conn[1].status = 404

\* C5 as amended: a name that contains "admin" in any letter case never
\* constructs; when its length is within 3..50 the semantic value_error is
\* reported on name, when it is longer than 50 only the length error is
\* reported on name; an error on another field is reported only when that
\* field is itself invalid.
C5_AdminNameRejected ==
    \A s \in Slots :
        (Validated(s) /\ HasAdmin(conn[s].request.body[1].name)) =>
            LET raw == conn[s].request.body[1]
                nameErrs == {e \in conn[s].body.detail : e.loc = "name"}
            IN
            /\ Finished(s)
            /\ conn[s].status = 422
            /\ NameLengthOk(raw.name) => nameErrs = {Err("name", "value_error")}
            /\ Len(raw.name) > NameMaxLength => nameErrs = {Err("name", "string_too_long")}
            /\ \A e \in conn[s].body.detail :
                  e.loc # "name" => e \in ViolatedConstraints(raw)

C5_Witness ==
    /\ conn[1].pc = "sent"
    /\ conn[1].status = 422
    /\ conn[1].request.body[1].name = <<"x", "A", "d", "M", "i", "N", " ", "x">>
    /\ conn[1].request.body[1].price = PriceLe + 1
    /\ conn[1].body.detail = {Err("name", "value_error"), Err("price", "less_than_equal")}

\* C5 as stated: the semantic error is reported for every name that contains
\* "admin", whatever its length.
C5_Original ==
    \A s \in Slots :
        (Validated(s) /\ HasAdmin(conn[s].request.body[1].name)) =>
            /\ Finished(s)
            /\ conn[s].status = 422
            /\ Err("name", "value_error") \in conn[s].body.detail
            /\ \A e \in conn[s].body.detail :
                  e.loc # "name" =>
                      e \in ViolatedConstraints(conn[s].request.body[1])

\* C6 as amended: construction succeeds iff every field constraint holds;
\* a price <= 0 or > 100000 is rejected with a range error on price; a failed
\* construction reports every violated constraint together, except that the
\* "admin" rule is not reported for a name whose length is out of range.
C6_ValidIffConstraints ==
    \A s \in Slots :
        Validated(s) =>
            LET raw == conn[s].request.body[1]
                violated == ViolatedConstraints(raw)
            IN
            /\ Constructed(s) <=> violated = {}
            /\ (raw.price <= 0 \/ raw.price > PriceLe) =>
                  /\ ~Constructed(s)
                  /\ \E e \in conn[s].body.detail :
                        e.loc = "price" /\ e.type \in {"greater_than", "less_than_equal"}
            /\ ~Constructed(s) =>
                  conn[s].body.detail =
                      violated \ {e \in {Err("name", "value_error")} :
                                     ~NameLengthOk(raw.name)}

C6_Witness ==
    /\ conn[1].pc = "sent"
    /\ conn[1].status = 422
    /\ conn[1].request.body[1].price = 0
    /\ Cardinality(conn[1].body.detail) = 6

\* C6 as stated: a failed construction reports all violated constraints.
C6_Original ==
    \A s \in Slots :
        Validated(s) =>
            LET raw == conn[s].request.body[1]
                violated == ViolatedConstraints(raw)
            IN
            /\ Constructed(s) <=> violated = {}
            /\ (raw.price <= 0 \/ raw.price > PriceLe) =>
                  /\ ~Constructed(s)
                  /\ \E e \in conn[s].body.detail :
                        e.loc = "price" /\ e.type \in {"greater_than", "less_than_equal"}
            /\ ~Constructed(s) => conn[s].body.detail = violated

C8_InvalidCreateNotApplied ==
    \A s \in Slots :
        (conn[s].request.route = RouteCreate /\ conn[s].pc \notin {"idle", "body"}
             /\ ViolatedConstraints(conn[s].request.body[1]) # {})
        => /\ Finished(s)
           /\ conn[s].status = 422
           /\ items_db = conn[s].snap
           /\ NextId(items_db) = NextId(conn[s].snap)
           /\ Len(createLog) = Cardinality(DOMAIN items_db)

C8_Witness ==
    /\ conn[1].request.route = RouteCreate
    /\ conn[1].pc = "sent"
    /\ conn[1].status = 422
    /\ Cardinality(DOMAIN items_db) = 1

\* C9 as amended: the id assignment and the insert run without a suspension
\* point between them, so creates in flight at the same time are assigned
\* distinct ids and no record overwrites another.
C9_ConcurrentCreatesDistinctIds ==
    /\ \A j \in 1..Len(createLog) :
          /\ createLog[j].item_id = j
          /\ j \in DOMAIN items_db
          /\ items_db[j] = createLog[j].item
    /\ Cardinality(DOMAIN items_db) = Len(createLog)
    /\ \A s \in Slots : \A t \in Slots \ {s} :
          (conn[s].request.route = RouteCreate /\ conn[s].status = 201
               /\ conn[t].request.route = RouteCreate /\ conn[t].status = 201)
          => conn[s].body.item_id # conn[t].body.item_id

\* both creates were received at the same store, so each was in flight
\* before the other's handler ran
C9_Witness ==
    /\ conn[1].status = 201
    /\ conn[2].status = 201
    /\ conn[1].snap = conn[2].snap
    /\ conn[1].body.item_id # conn[2].body.item_id

\* C9 as stated: with two creates in flight and their handlers still to run,
\* some order of the remaining steps assigns both the same id.
C9_Original ==
    \A s \in Slots : \A t \in Slots \ {s} :
        (AtHandler(s, RouteCreate) /\ AtHandler(t, RouteCreate)) =>
            \E order \in {<<s, t>>, <<t, s>>} :
                LET first == CreateItemResult(items_db, conn[order[1]].item[1])
                    second == CreateItemResult(first.db, conn[order[2]].item[1])
                IN first.item_id = second.item_id

====
